---- MODULE Spec2Model ----
(***************************************************************************)
(* A model of magic-wormhole.rs:                                           *)
(*   - core/src/rendezvous.rs : the Rendezvous reconnect state machine     *)
(*   - src/forwarding.rs      : the port-forwarding session loops          *)
(*                              (ForwardingServe and ForwardConnect)       *)
(* SpecRendezvous runs the first part, SpecForwarding the second.  The     *)
(* variables of the part a specification does not run stay at their        *)
(* initial value.                                                          *)
(***************************************************************************)
EXTENDS Integers, Sequences, FiniteSets, TLC

VARIABLES
    \* ---- core/src/rendezvous.rs
    rendezvous,         \* the Rendezvous struct (record, fields as in the source)
    actions,            \* every Action pushed on the caller's VecDeque, in order
    rdv_panicked,       \* an event handler ran into panic!("bad transition ...")
    rdv_events,         \* history: the events applied so far
    rdv_before,         \* history: the state in which the last event was applied
    rdv_open,           \* history: the handles of the websockets opened and
                        \* not lost since
    rdv_timers          \* history: the handles of the timers started and
                        \* neither expired nor cancelled since

VARIABLES
    \* ---- src/forwarding.rs, the forwarder: serve and ForwardingServe
    serve_pc,               \* "run": in the loop of run; "returned": run has
                            \* returned to serve; "done": serve has returned;
                            \* "panicked": an unwrap failed
    serve_result,           \* what run returned ("none" while it runs)
    serve_connections,      \* the keys of ForwardingServe.connections
    historic_connections,   \* ForwardingServe.historic_connections
    serve_worker,           \* per id, the state of the spawned reader task
    serve_nread,            \* per id, chunks its reader has read from the socket
    serve_backchannel,      \* the items queued on the mpsc back-channel
    serve_sink,             \* every message given to transit_tx.send, in order
    serve_steps,            \* iterations of the loop of run so far
    serve_last,             \* history: the event the loop handled last
    serve_announced,        \* history: ids of the Connect messages handled
    serve_removed,          \* history: ids once removed from connections
    serve_chunks            \* history: per id, the chunks its readers have read

VARIABLES
    \* ---- src/forwarding.rs, the listener: connect and ForwardConnect
    connect_pc,             \* "offer": connect awaits the Offer; then as serve_pc
    connect_result,         \* what the run block returned ("none" while it runs)
    custom_ports,           \* the argument custom_ports
    connect_listeners,      \* the listeners bound: (requested port, address)
    connection_counter,     \* ForwardConnect.connection_counter
    connect_connections,    \* the keys of ForwardConnect.connections
    connect_worker,         \* per id, the state of the spawned reader task
    connect_nread,          \* per id, chunks its reader has read from the socket
    connect_backchannel,    \* the items queued on the mpsc back-channel
    connect_sink,           \* every message given to transit_tx.send, in order
    connect_steps,          \* iterations of the loop of run so far
    connect_last,           \* history: the event the role handled last
    connect_removed,        \* history: ids once removed from connections
    connect_chunks          \* history: per id, the chunks its readers have read

VARIABLES
    \* ---- a session of the forwarder and the listener over one transit
    serve_nrecv,            \* messages of the listener the forwarder has taken
                            \* from transit_rx
    connect_nrecv           \* messages of the forwarder (after the Offer) the
                            \* listener has taken from transit_rx

rdvVars == <<rendezvous, actions, rdv_panicked, rdv_events, rdv_before, rdv_open,
            rdv_timers>>

serveVars == <<serve_pc, serve_result, serve_connections, historic_connections,
               serve_worker, serve_nread, serve_backchannel, serve_sink,
               serve_steps, serve_last, serve_announced, serve_removed,
               serve_chunks>>

connectVars == <<connect_pc, connect_result, custom_ports, connect_listeners,
                 connection_counter, connect_connections, connect_worker,
                 connect_nread, connect_backchannel, connect_sink, connect_steps,
                 connect_last, connect_removed, connect_chunks>>

pairVars == <<serve_nrecv, connect_nrecv>>

vars == <<rdvVars, serveVars, connectVars, pairVars>>

(***************************************************************************)
(* Bounds of the model.                                                    *)
(***************************************************************************)
MaxEvents == 5      \* rendezvous events applied in one behaviour
MaxUrlLen == 2      \* length of the relay url, in characters
MaxId == 1          \* connection ids are 0..MaxId
BackchannelCap == 1 \* items the back-channel holds (channel(20) in the source)
MaxSteps == 4       \* iterations of a session loop in one behaviour
MaxAddresses == 3   \* addresses of an Offer, where the listeners are looked at
MaxPorts == 2       \* length of custom_ports, where the listeners are looked at
TransitCap == 1     \* records the transit buffers in one direction

(***************************************************************************)
(* core/src/rendezvous.rs                                                  *)
(***************************************************************************)
UrlChars == {"W", "w", "S", "/"}
Urls == UNION {[1..n -> UrlChars] : n \in 1..MaxUrlLen}
AppIds == {"appid", "other"}
RetryTimers == {1, 5}

\* char::to_lowercase on the characters of the model's alphabet
LowerChar(c) ==
    CASE c = "W" -> "w"
      [] c = "S" -> "s"
      [] OTHER   -> c

\* String::to_lowercase: character by character
to_lowercase(s) == [i \in DOMAIN s |-> LowerChar(s[i])]

\* json!({...}) of a bind message; NoMessage stands where an Action has no text
NoMessage == [type |-> "", appid |-> "", side |-> ""]
BindMessage(appid) == [type |-> "bind", appid |-> appid, side |-> "side1"]

\* enum Action: every variant as a record of the same shape
WebSocketOpen(handle, url) ==
    [type |-> "WebSocketOpen", handle |-> handle, url |-> url,
     msg |-> NoMessage, seconds |-> 0]
WebSocketSendMessage(handle, msg) ==
    [type |-> "WebSocketSendMessage", handle |-> handle, url |-> <<>>,
     msg |-> msg, seconds |-> 0]
WebSocketClose(handle) ==
    [type |-> "WebSocketClose", handle |-> handle, url |-> <<>>,
     msg |-> NoMessage, seconds |-> 0]
StartTimer(handle, seconds) ==
    [type |-> "StartTimer", handle |-> handle, url |-> <<>>,
     msg |-> NoMessage, seconds |-> seconds]
CancelTimer(handle) ==
    [type |-> "CancelTimer", handle |-> handle, url |-> <<>>,
     msg |-> NoMessage, seconds |-> 0]

\* pub fn create: reconnect_timer is an Option, here the empty set or a singleton
create(appid, relay_url, retry_timer) ==
    [wsh |-> 1, relay_url |-> relay_url, retry_timer |-> retry_timer,
     appid |-> appid, state |-> "Idle", connected_at_least_once |-> FALSE,
     reconnect_timer |-> {}]

\* The outcome of an event handler: the struct after it, the actions it
\* pushed, and whether it panicked (self.state is assigned after the match,
\* so a panicking handler leaves the struct as it was).
Moved(r, newstate, push) ==
    [r |-> [r EXCEPT !.state = newstate], push |-> push, panic |-> FALSE]

\* (mutant) the handler closes the websocket before it panics
BadTransition_Closing(r) ==
    [r |-> r, push |-> <<WebSocketClose(r.wsh)>>, panic |-> TRUE]

BadTransition(r) == [r |-> r, push |-> <<>>, panic |-> TRUE]

\* (mutant) the url is opened as configured
start_AsConfigured(r) ==
    IF r.state = "Idle"
    THEN Moved(r, "Connecting", <<WebSocketOpen(r.wsh, r.relay_url)>>)
    ELSE BadTransition(r)

start(r) ==
    IF r.state = "Idle"
    THEN Moved(r, "Connecting", <<WebSocketOpen(r.wsh, to_lowercase(r.relay_url))>>)
    ELSE BadTransition(r)

\* (mutant) the machine moves to Connected without a bind
connection_made_Silent(r) ==
    IF r.state = "Connecting" THEN Moved(r, "Connected", <<>>)
    ELSE BadTransition(r)

connection_made(r) ==
    IF r.state = "Connecting"
    THEN Moved(r, "Connected", <<WebSocketSendMessage(r.wsh, BindMessage(r.appid))>>)
    ELSE BadTransition(r)

connection_lost(r) ==
    CASE r.state \in {"Connecting", "Connected"} ->
            Moved([r EXCEPT !.reconnect_timer = {2}], "Waiting",
                  <<StartTimer(2, r.retry_timer)>>)
      [] r.state = "Disconnecting" -> Moved(r, "Stopped", <<>>)
      [] OTHER -> BadTransition(r)

\* (mutant) a timer that expires in another state is ignored
timer_expired_Ignored(r) ==
    IF r.state = "Waiting"
    THEN Moved(r, "Connecting", <<WebSocketOpen(2, to_lowercase(r.relay_url))>>)
    ELSE Moved(r, r.state, <<>>)

\* (mutant) the timer opens a websocket in Connecting and Connected too
timer_expired_Anytime(r) ==
    IF r.state \in {"Waiting", "Connecting", "Connected"}
    THEN Moved(r, "Connecting", <<WebSocketOpen(2, to_lowercase(r.relay_url))>>)
    ELSE BadTransition(r)

timer_expired(r) ==
    IF r.state = "Waiting"
    THEN Moved(r, "Connecting", <<WebSocketOpen(2, to_lowercase(r.relay_url))>>)
    ELSE BadTransition(r)

\* (mutant) stop cancels the timer named by the websocket handle
stop_CancelOther(r) ==
    CASE r.state \in {"Idle", "Stopped"} -> Moved(r, "Stopped", <<>>)
      [] r.state \in {"Connecting", "Connected"} ->
            Moved(r, "Disconnecting", <<WebSocketClose(r.wsh)>>)
      [] r.state = "Waiting" -> Moved(r, "Stopped", <<CancelTimer(r.wsh)>>)
      [] r.state = "Disconnecting" -> Moved(r, "Disconnecting", <<>>)

\* (mutant) a machine that was never started stays Idle
stop_IdleStays(r) ==
    CASE r.state \in {"Idle", "Stopped"} -> Moved(r, r.state, <<>>)
      [] r.state \in {"Connecting", "Connected"} ->
            Moved(r, "Disconnecting", <<WebSocketClose(r.wsh)>>)
      [] r.state = "Waiting" ->
            Moved(r, "Stopped",
                  <<CancelTimer(CHOOSE h \in r.reconnect_timer : TRUE)>>)
      [] r.state = "Disconnecting" -> Moved(r, "Disconnecting", <<>>)

stop(r) ==
    CASE r.state \in {"Idle", "Stopped"} -> Moved(r, "Stopped", <<>>)
      [] r.state \in {"Connecting", "Connected"} ->
            Moved(r, "Disconnecting", <<WebSocketClose(r.wsh)>>)
      [] r.state = "Waiting" ->
            Moved(r, "Stopped",
                  <<CancelTimer(CHOOSE h \in r.reconnect_timer : TRUE)>>)
      [] r.state = "Disconnecting" -> Moved(r, "Disconnecting", <<>>)

(***************************************************************************)
(* src/forwarding.rs: what both session loops share                        *)
(***************************************************************************)
Ids == 0..MaxId

\* enum PeerMessage, every variant as a record of the same shape.  The items
\* transit_rx yields that are no message are inputs of the same shape:
\* EndOfStream (the stream yields None), TransitError (it yields Err) and
\* Garbage (bytes de_msgpack rejects).
Message(type, id, target, payload, addresses) ==
    [type |-> type, connection_id |-> id, target |-> target,
     payload |-> payload, addresses |-> addresses]
Forward(id, payload) == Message("Forward", id, "", payload, <<>>)
Connect(target, id) == Message("Connect", id, target, 0, <<>>)
Disconnect(id) == Message("Disconnect", id, "", 0, <<>>)
Offer(addresses) == Message("Offer", 0, "", 0, addresses)
Plain(type) == Message(type, 0, "", 0, <<>>)

\* An item of the back-channel: (connection_id, Some(payload)) or
\* (connection_id, None)
Item(id, close, payload) == [connection_id |-> id, close |-> close, payload |-> payload]

\* An event of the local side, in the shape of a message
Local(type, id) == Message(type, id, "", 0, <<>>)

\* What a handler works on: the fields of self, the sink, the local I/O
\* operations done so far in this iteration (io), and how the iteration ends
\* (res): "continue", or what run returns, or "panic".
Session(connections, historic, counter, worker, nread, sink) ==
    [connections |-> connections, historic |-> historic, counter |-> counter,
     worker |-> worker, nread |-> nread, sink |-> sink,
     io |-> {}, res |-> "continue"]

Returns(S, res) == [S EXCEPT !.res = res]

\* transit_tx.send(msg).await? : the message is given to the sink; when the
\* sink reports an error the handler returns it
Send(S, msg, send_ok) ==
    LET S1 == [S EXCEPT !.sink = Append(@, msg), !.io = @ \cup {"send"}]
    IN  IF send_ok THEN S1 ELSE Returns(S1, "Transit")

\* self.connections.remove(&id), then worker.cancel().await
RemoveAndCancel(S, id) ==
    [S EXCEPT !.connections = @ \ {id}, !.worker[id] = "cancelled",
              !.nread[id] = 0]

\* connections.insert(id, (worker, connection_wr)) with a freshly spawned
\* reader task
InsertSpawned(S, id) ==
    [S EXCEPT !.connections = @ \cup {id}, !.worker[id] = "reading",
              !.nread[id] = 0]

\* (mutant) the map is consumed without cancelling the workers
shutdown_NoCancel(S) == S

\* fn shutdown(self): every worker in connections is cancelled; the map, and
\* the write halves in it, are consumed
shutdown(S) ==
    [S EXCEPT !.worker = [i \in Ids |-> IF i \in S.connections
                                         THEN "cancelled" ELSE S.worker[i]],
              !.nread = [i \in Ids |-> 0],
              !.connections = {}]

\* run returns (or unwinds) without shutdown: self is dropped.  Dropping the
\* map drops the write halves and the JoinHandles; a dropped JoinHandle
\* detaches its task, it does not cancel it.
DropSelf(S) ==
    [S EXCEPT !.worker = [i \in Ids |-> IF i \in S.connections /\ S.worker[i] = "reading"
                                         THEN "detached" ELSE S.worker[i]],
              !.nread = [i \in Ids |-> 0],
              !.connections = {}]

\* backchannel_rx is a field of self: when run ends it is dropped, and the
\* items queued in it with it
Receiver(S, queue) == IF S.res = "continue" THEN queue ELSE <<>>

\* (mutant) only the readers hold a sender of the back-channel
BackchannelSenders_ReadersOnly(worker) ==
    Cardinality({id \in Ids : worker[id] = "reading"})

\* The senders of the back-channel that are alive while run runs:
\* self.backchannel_tx, and the clone each reader holds until it ends or is
\* cancelled
BackchannelSenders(worker) ==
    1 + Cardinality({id \in Ids : worker[id] = "reading"})

\* backchannel_rx.next(): ready with the item at the head of the queue;
\* ready with None when the queue is empty and no sender is left; pending
\* otherwise
BackchannelNext(queue, worker) ==
    IF queue # <<>> THEN "item"
    ELSE IF BackchannelSenders(worker) = 0 THEN "closed"
    ELSE "pending"

\* Where the role stands after an iteration that ended with res
PcAfter(res) ==
    CASE res = "continue" -> "run"
      [] res = "panic" -> "panicked"
      [] OTHER -> "returned"

ResultOf(res) == IF res \in {"continue", "panic"} THEN "none" ELSE res

\* (mutant) a PeerError is echoed too
EchoError_Always(result, sink) ==
    IF result = "Ok" THEN sink ELSE Append(sink, Plain("Error"))

\* The match on the result of the session loop, in serve and in connect:
\* the messages the role has written when it returns
EchoError(result, sink) ==
    IF result \in {"Ok", "Peer"} THEN sink ELSE Append(sink, Plain("Error"))

\* history: what a role handled last: the event, where the role stood (at),
\* the I/O the handler did and how that I/O went
Event(at, event, S, local_ok, send_ok) ==
    [at |-> at, event |-> event, io |-> S.io, local_ok |-> local_ok,
     send_ok |-> send_ok]

NoEvent ==
    [at |-> "none", event |-> Plain("none"), io |-> {}, local_ok |-> TRUE,
     send_ok |-> TRUE]

\* history: the ids a handler removed from connections while the loop goes on
Removed(S, connections) ==
    IF S.res = "continue" THEN connections \ S.connections ELSE {}

\* The outcomes of local and transit I/O that an iteration did not ask for
\* are not inputs of it
IoUsed(S, local_ok, send_ok) ==
    /\ ~local_ok => S.io \cap {"write", "dial", "accept", "bind"} # {}
    /\ ~send_ok => "send" \in S.io

(***************************************************************************)
(* src/forwarding.rs: ForwardingServe                                      *)
(***************************************************************************)
Targets == {"5000"}             \* the keys of ForwardingServe.targets
PeerTargets == {"5000", "x:1"}  \* targets a peer may name

\* (mutant) a Disconnect for an id that is not live is a protocol error
ServeRemoveConnection_Strict(S, id, tell_peer, send_ok) ==
    LET S1 == IF tell_peer THEN Send(S, Disconnect(id), send_ok) ELSE S
    IN  IF S1.res # "continue" THEN S1
        ELSE IF id \in S1.connections THEN RemoveAndCancel(S1, id)
        ELSE Returns(S1, "Protocol")

ServeRemoveConnection(S, id, tell_peer, send_ok) ==
    LET S1 == IF tell_peer THEN Send(S, Disconnect(id), send_ok) ELSE S
    IN  IF S1.res # "continue" THEN S1
        ELSE IF id \in S1.connections THEN RemoveAndCancel(S1, id)
        ELSE IF id \notin S1.historic THEN Returns(S1, "Protocol")
        ELSE S1

\* (mutant) a Forward for an id that is not live is a protocol error
ServeForward_Strict(S, id, write_ok, send_ok) ==
    IF id \in S.connections
    THEN LET S1 == [S EXCEPT !.io = @ \cup {"write"}]
         IN  IF write_ok THEN S1
             ELSE ServeRemoveConnection(S1, id, TRUE, send_ok)
    ELSE Returns(S, "Protocol")

\* (mutant) a failed write ends the session
ServeForward_Fatal(S, id, write_ok, send_ok) ==
    IF id \in S.connections
    THEN LET S1 == [S EXCEPT !.io = @ \cup {"write"}]
         IN  IF write_ok THEN S1 ELSE Returns(S1, "IO")
    ELSE IF id \notin S.historic THEN Returns(S, "Protocol")
    ELSE S

ServeForward(S, id, write_ok, send_ok) ==
    IF id \in S.connections
    THEN LET S1 == [S EXCEPT !.io = @ \cup {"write"}]
         IN  IF write_ok THEN S1
             ELSE ServeRemoveConnection(S1, id, TRUE, send_ok)
    ELSE IF id \notin S.historic THEN Returns(S, "Protocol")
    ELSE S

\* (mutant) a Connect for a live id replaces the connection
ServeSpawnConnection_Replace(S, target, id, dial_ok, send_ok) ==
    LET S1 == [S EXCEPT !.io = @ \cup {"dial"}]
    IN  IF dial_ok THEN InsertSpawned(S1, id)
        ELSE Send(S1, Disconnect(id), send_ok)

ServeSpawnConnection(S, target, id, dial_ok, send_ok) ==
    IF id \in S.connections THEN Returns(S, "Protocol")
    ELSE LET S1 == [S EXCEPT !.io = @ \cup {"dial"}]
         IN  IF dial_ok THEN InsertSpawned(S1, id)
             ELSE Send(S1, Disconnect(id), send_ok)

\* (mutant) the id is burned only when the connection is made
ServeConnect_BurnOnSuccess(S, target, id, dial_ok, send_ok) ==
    IF target \notin Targets THEN Returns(S, "Protocol")
    ELSE LET S1 == ServeSpawnConnection(S, target, id, dial_ok, send_ok)
         IN  IF id \in S1.connections THEN [S1 EXCEPT !.historic = @ \cup {id}]
             ELSE S1

\* (mutant) the id of a Connect is not recorded
ServeConnect_NoBurn(S, target, id, dial_ok, send_ok) ==
    IF target \notin Targets THEN Returns(S, "Protocol")
    ELSE ServeSpawnConnection(S, target, id, dial_ok, send_ok)

\* run, the Connect arm
ServeConnect(S, target, id, dial_ok, send_ok) ==
    LET S1 == [S EXCEPT !.historic = @ \cup {id}]
    IN  IF target \notin Targets THEN Returns(S1, "Protocol")
        ELSE ServeSpawnConnection(S1, target, id, dial_ok, send_ok)

\* run, the transit_rx arm of the select
ServeTransit(S, m, local_ok, send_ok) ==
    CASE m.type = "EndOfStream" -> Returns(S, "panic")
      [] m.type = "TransitError" -> Returns(S, "Transit")
      [] m.type = "Garbage" -> Returns(S, "Msgpack")
      [] m.type = "Forward" -> ServeForward(S, m.connection_id, local_ok, send_ok)
      [] m.type = "Connect" ->
            ServeConnect(S, m.target, m.connection_id, local_ok, send_ok)
      [] m.type = "Disconnect" ->
            ServeRemoveConnection(S, m.connection_id, FALSE, send_ok)
      [] m.type = "Close" -> Returns(shutdown(S), "Ok")
      [] m.type = "Error" -> Returns(shutdown(S), "Peer")
      [] OTHER -> Returns(shutdown(S), "Unexpected")

\* (mutant) a chunk is forwarded twice
ServeDrain_Twice(S, item, send_ok) ==
    IF item.close
    THEN ServeRemoveConnection(S, item.connection_id, TRUE, send_ok)
    ELSE Send(Send(S, Forward(item.connection_id, item.payload), TRUE),
              Forward(item.connection_id, item.payload), send_ok)

\* run, the backchannel_rx arm of the select
ServeDrain(S, item, send_ok) ==
    IF item.close
    THEN ServeRemoveConnection(S, item.connection_id, TRUE, send_ok)
    ELSE Send(S, Forward(item.connection_id, item.payload), send_ok)

\* What a peer can make transit_rx yield
ServeInputs ==
    {Forward(id, 0) : id \in Ids} \cup {Disconnect(id) : id \in Ids}
    \cup {Connect(t, id) : t \in PeerTargets, id \in Ids}
    \cup {Plain(t) : t \in {"Close", "Error", "Offer", "Transit", "Unknown",
                            "EndOfStream", "TransitError", "Garbage"}}

ServeSelf ==
    Session(serve_connections, historic_connections, 0, serve_worker,
            serve_nread, serve_sink)

\* The end of one iteration of the loop of run: S is the outcome of the arm
\* taken, event what it handled.
ServeIteration(S, event, local_ok, send_ok) ==
    LET F == IF S.res = "continue" THEN S ELSE DropSelf(S)
    IN  /\ serve_steps < MaxSteps
        /\ IoUsed(S, local_ok, send_ok)
        /\ serve_steps' = serve_steps + 1
        /\ serve_pc' = PcAfter(S.res)
        /\ serve_result' = ResultOf(S.res)
        /\ serve_connections' = F.connections
        /\ historic_connections' = F.historic
        /\ serve_worker' = F.worker
        /\ serve_nread' = F.nread
        /\ serve_sink' = F.sink
        /\ serve_last' = Event("run", event, S, local_ok, send_ok)
        /\ serve_announced' = serve_announced \cup
                (IF event.type = "Connect" THEN {event.connection_id} ELSE {})
        /\ serve_removed' = serve_removed \cup Removed(S, serve_connections)
        /\ UNCHANGED serve_chunks

ServeReceive ==
    \E m \in ServeInputs, local_ok, send_ok \in BOOLEAN :
        /\ serve_pc = "run"
        /\ LET S == ServeTransit(ServeSelf, m, local_ok, send_ok)
           IN  /\ ServeIteration(S, m, local_ok, send_ok)
               /\ serve_backchannel' = Receiver(S, serve_backchannel)

ServeBackchannel ==
    \E send_ok \in BOOLEAN :
        /\ serve_pc = "run"
        /\ BackchannelNext(serve_backchannel, serve_worker) # "pending"
        /\ IF serve_backchannel = <<>>
           THEN \* message.unwrap() on None
                /\ ServeIteration(Returns(ServeSelf, "panic"),
                                  Local("BackchannelClosed", 0), TRUE, send_ok)
                /\ serve_backchannel' = <<>>
           ELSE LET item == Head(serve_backchannel)
                    S == ServeDrain(ServeSelf, item, send_ok)
                IN  /\ ServeIteration(S, Local(IF item.close THEN "LocalClose"
                                                             ELSE "LocalData",
                                               item.connection_id),
                                      TRUE, send_ok)
                    /\ serve_backchannel' = Receiver(S, Tail(serve_backchannel))

\* The reader task of a connection: one pass of its loop that reads a chunk
\* and queues it
ServeWorkerRead ==
    \E id \in Ids :
        /\ serve_pc = "run"
        /\ serve_worker[id] = "reading"
        /\ Len(serve_backchannel) < BackchannelCap
        /\ serve_nread' = [serve_nread EXCEPT ![id] = @ + 1]
        /\ serve_backchannel' =
                Append(serve_backchannel, Item(id, FALSE, serve_nread[id] + 1))
        /\ serve_chunks' = [serve_chunks EXCEPT ![id] = Append(@, serve_nread[id] + 1)]
        /\ UNCHANGED <<serve_pc, serve_result, serve_connections,
                       historic_connections, serve_worker, serve_sink,
                       serve_steps, serve_last, serve_announced, serve_removed>>

\* The reader task reads 0 bytes or an error: it queues (id, None) and ends
ServeWorkerClose ==
    \E id \in Ids :
        /\ serve_pc = "run"
        /\ serve_worker[id] = "reading"
        /\ Len(serve_backchannel) < BackchannelCap
        /\ serve_worker' = [serve_worker EXCEPT ![id] = "finished"]
        /\ serve_nread' = [serve_nread EXCEPT ![id] = 0]
        /\ serve_backchannel' = Append(serve_backchannel, Item(id, TRUE, 0))
        /\ UNCHANGED <<serve_pc, serve_result, serve_connections,
                       historic_connections, serve_sink, serve_steps, serve_last,
                       serve_announced, serve_removed, serve_chunks>>

\* serve, after run has returned: the match on its result
ServeFinish ==
    /\ serve_pc = "returned"
    /\ serve_pc' = "done"
    /\ serve_sink' = EchoError(serve_result, serve_sink)
    /\ UNCHANGED <<serve_result, serve_connections, historic_connections,
                   serve_worker, serve_nread, serve_backchannel, serve_steps,
                   serve_last, serve_announced, serve_removed, serve_chunks>>

ServeFields(pc) ==
    /\ serve_pc = pc
    /\ serve_result = "none"
    /\ serve_connections = {}
    /\ historic_connections = {}
    /\ serve_worker = [i \in Ids |-> "none"]
    /\ serve_nread = [i \in Ids |-> 0]
    /\ serve_backchannel = <<>>
    /\ serve_sink = <<>>
    /\ serve_steps = 0
    /\ serve_last = NoEvent
    /\ serve_announced = {}
    /\ serve_removed = {}
    /\ serve_chunks = [i \in Ids |-> <<>>]

\* serve has sent its Offer and enters run with empty maps
ServeStart == ServeFields("run")

\* this side is not the forwarder
ServeIdle == ServeFields("idle")

(***************************************************************************)
(* src/forwarding.rs: connect and ForwardConnect                           *)
(***************************************************************************)
Addresses == {<<>>, <<"5000">>, <<"5000", "x:1">>}   \* offers a peer may send
CustomPorts == {<<10001>>}                            \* custom_ports of a call

\* addresses.zip(custom_ports.chain(repeat(0))): the port asked for the i-th
\* listener
RequestedPort(ports, i) == IF i <= Len(ports) THEN ports[i] ELSE 0

\* (mutant) the addresses are zipped with custom_ports alone
Listeners_Zip(addresses, ports) ==
    [i \in 1..(IF Len(ports) < Len(addresses) THEN Len(ports) ELSE Len(addresses)) |->
        [port |-> ports[i], address |-> addresses[i]]]

\* the listeners of connect: one per offered address, in the order of the offer
Listeners(addresses, ports) ==
    [i \in 1..Len(addresses) |->
        [port |-> RequestedPort(ports, i), address |-> addresses[i]]]

\* (mutant) a message that is no Offer is skipped
ConnectOffer_Lenient(S, m, bind_ok) ==
    CASE m.type = "EndOfStream" -> Returns(S, "panic")
      [] m.type = "TransitError" -> Returns(S, "Transit")
      [] m.type = "Garbage" -> Returns(S, "Msgpack")
      [] m.type = "Offer" ->
            IF m.addresses = <<>> THEN S
            ELSE LET S1 == [S EXCEPT !.io = @ \cup {"bind"}]
                 IN  IF bind_ok THEN S1 ELSE Returns(S1, "IO")
      [] m.type = "Error" -> Returns(S, "Peer")
      [] OTHER -> S

\* connect, the head of the run block: the first item of transit_rx must be
\* the Offer; then the listeners are bound
ConnectOffer(S, m, bind_ok) ==
    CASE m.type = "EndOfStream" -> Returns(S, "panic")
      [] m.type = "TransitError" -> Returns(S, "Transit")
      [] m.type = "Garbage" -> Returns(S, "Msgpack")
      [] m.type = "Offer" ->
            IF m.addresses = <<>> THEN S
            ELSE LET S1 == [S EXCEPT !.io = @ \cup {"bind"}]
                 IN  IF bind_ok THEN S1 ELSE Returns(S1, "IO")
      [] m.type = "Error" -> Returns(S, "Peer")
      [] OTHER -> Returns(S, "Unexpected")

ConnectRemoveConnection(S, id, tell_peer, send_ok) ==
    LET S1 == IF tell_peer THEN Send(S, Disconnect(id), send_ok) ELSE S
    IN  IF S1.res # "continue" THEN S1
        ELSE IF id \in S1.connections THEN RemoveAndCancel(S1, id)
        ELSE IF id >= S1.counter THEN Returns(S1, "Protocol")
        ELSE S1

\* (mutant) a Forward for an id that is not live is a protocol error
ConnectForward_Strict(S, id, write_ok, send_ok) ==
    IF id \in S.connections
    THEN LET S1 == [S EXCEPT !.io = @ \cup {"write"}]
         IN  IF write_ok THEN S1
             ELSE ConnectRemoveConnection(S1, id, TRUE, send_ok)
    ELSE Returns(S, "Protocol")

ConnectForward(S, id, write_ok, send_ok) ==
    IF id \in S.connections
    THEN LET S1 == [S EXCEPT !.io = @ \cup {"write"}]
         IN  IF write_ok THEN S1
             ELSE ConnectRemoveConnection(S1, id, TRUE, send_ok)
    ELSE IF S.counter <= id THEN Returns(S, "Protocol")
    ELSE S

\* (mutant) the counter is left as it is
ConnectSpawnConnection_NoIncrement(S, target, send_ok) ==
    LET id == S.counter
        S2 == Send(S, Connect(target, id), send_ok)
    IN  IF S2.res # "continue" THEN S2 ELSE InsertSpawned(S2, id)

\* (mutant) the id is taken after the counter is incremented
ConnectSpawnConnection_IdAfterIncrement(S, target, send_ok) ==
    LET S1 == [S EXCEPT !.counter = @ + 1]
        id == S1.counter
        S2 == Send(S1, Connect(target, id), send_ok)
    IN  IF S2.res # "continue" THEN S2
        ELSE [S2 EXCEPT !.connections = @ \cup {id}]

ConnectSpawnConnection(S, target, send_ok) ==
    LET id == S.counter
        S1 == [S EXCEPT !.counter = @ + 1]
        S2 == Send(S1, Connect(target, id), send_ok)
    IN  IF S2.res # "continue" THEN S2 ELSE InsertSpawned(S2, id)

\* run, the transit_rx arm of the select
ConnectTransit(S, m, write_ok, send_ok) ==
    CASE m.type = "EndOfStream" -> Returns(S, "panic")
      [] m.type = "TransitError" -> Returns(S, "Transit")
      [] m.type = "Garbage" -> Returns(S, "Msgpack")
      [] m.type = "Forward" -> ConnectForward(S, m.connection_id, write_ok, send_ok)
      [] m.type = "Disconnect" ->
            ConnectRemoveConnection(S, m.connection_id, FALSE, send_ok)
      [] m.type = "Close" -> Returns(shutdown(S), "Ok")
      [] m.type = "Error" -> Returns(shutdown(S), "Peer")
      [] OTHER -> Returns(shutdown(S), "Unexpected")

\* run, the backchannel_rx arm of the select
ConnectDrain(S, item, send_ok) ==
    IF item.close
    THEN ConnectRemoveConnection(S, item.connection_id, TRUE, send_ok)
    ELSE Send(S, Forward(item.connection_id, item.payload), send_ok)

\* run, the incoming arm of the select: the next item of the merged accept
\* streams.  With no listener the merged stream is at its end and yields
\* None.
ConnectIncoming(S, listeners, i, accept_ok, send_ok) ==
    IF listeners = <<>> THEN Returns(S, "panic")
    ELSE LET S1 == [S EXCEPT !.io = @ \cup {"accept"}]
         IN  IF accept_ok
             THEN ConnectSpawnConnection(S1, listeners[i].address, send_ok)
             ELSE Returns(S1, "IO")

\* What a peer can make transit_rx yield
ConnectInputs ==
    {Forward(id, 0) : id \in Ids} \cup {Disconnect(id) : id \in Ids}
    \cup {Connect("5000", 0), Offer(<<"5000">>)}
    \cup {Plain(t) : t \in {"Close", "Error", "Transit", "Unknown",
                            "EndOfStream", "TransitError", "Garbage"}}

OfferInputs ==
    {Offer(a) : a \in Addresses} \cup {Connect("5000", 0), Forward(0, 0)}
    \cup {Plain(t) : t \in {"Close", "Error", "Transit", "Unknown",
                            "EndOfStream", "TransitError", "Garbage"}}

ConnectSelf ==
    Session(connect_connections, {}, connection_counter, connect_worker,
            connect_nread, connect_sink)

\* The end of one step of the run block: S is the outcome of the code run,
\* event what it handled.
ConnectCommit(S, event, local_ok, send_ok) ==
    LET F == IF S.res = "continue" THEN S ELSE DropSelf(S)
    IN  /\ IoUsed(S, local_ok, send_ok)
        /\ connect_pc' = PcAfter(S.res)
        /\ connect_result' = ResultOf(S.res)
        /\ connection_counter' = F.counter
        /\ connect_connections' = F.connections
        /\ connect_worker' = F.worker
        /\ connect_nread' = F.nread
        /\ connect_sink' = F.sink
        /\ connect_last' = Event(connect_pc, event, S, local_ok, send_ok)
        /\ connect_removed' = connect_removed \cup Removed(S, connect_connections)
        /\ UNCHANGED <<custom_ports, connect_chunks>>

ConnectIteration(S, event, local_ok, send_ok) ==
    /\ connect_pc = "run"
    /\ connect_steps < MaxSteps
    /\ connect_steps' = connect_steps + 1
    /\ ConnectCommit(S, event, local_ok, send_ok)
    /\ UNCHANGED connect_listeners

\* Offers and port lists of every length up to the bounds
ListenerOffers ==
    {Offer(a) : a \in UNION {[1..n -> {"5000", "x:1"}] : n \in 0..MaxAddresses}}
ListenerPorts == UNION {[1..n -> {10001, 10002}] : n \in 0..MaxPorts}

AwaitOffer(inputs) ==
    \E m \in inputs, bind_ok \in BOOLEAN :
        /\ connect_pc = "offer"
        /\ LET S == ConnectOffer(ConnectSelf, m, bind_ok)
           IN  /\ ConnectCommit(S, m, bind_ok, TRUE)
               /\ connect_listeners' =
                    IF S.res = "continue" THEN Listeners(m.addresses, custom_ports)
                    ELSE <<>>
        /\ UNCHANGED <<connect_backchannel, connect_steps>>

ConnectAwaitOffer == AwaitOffer(OfferInputs)

\* the same step, with an Offer of any length
ListenersAwaitOffer == AwaitOffer(ListenerOffers)

ConnectReceive ==
    \E m \in ConnectInputs, write_ok, send_ok \in BOOLEAN :
        LET S == ConnectTransit(ConnectSelf, m, write_ok, send_ok)
        IN  /\ ConnectIteration(S, m, write_ok, send_ok)
            /\ connect_backchannel' = Receiver(S, connect_backchannel)

ConnectBackchannel ==
    \E send_ok \in BOOLEAN :
        /\ BackchannelNext(connect_backchannel, connect_worker) # "pending"
        /\ IF connect_backchannel = <<>>
           THEN \* message.unwrap() on None
                /\ ConnectIteration(Returns(ConnectSelf, "panic"),
                                    Local("BackchannelClosed", 0), TRUE, send_ok)
                /\ connect_backchannel' = <<>>
           ELSE LET item == Head(connect_backchannel)
                    S == ConnectDrain(ConnectSelf, item, send_ok)
                IN  /\ ConnectIteration(S, Local(IF item.close THEN "LocalClose"
                                                               ELSE "LocalData",
                                                 item.connection_id),
                                        TRUE, send_ok)
                    /\ connect_backchannel' =
                            Receiver(S, Tail(connect_backchannel))

\* ids are u64 in the source; the model stops accepting at MaxId
ConnectAccept ==
    \E i \in 1..Len(connect_listeners) \cup {1}, accept_ok, send_ok \in BOOLEAN :
        /\ connection_counter <= MaxId
        /\ LET S == ConnectIncoming(ConnectSelf, connect_listeners, i,
                                    accept_ok, send_ok)
           IN  /\ ConnectIteration(S, Local("Accept", connection_counter),
                                   accept_ok, send_ok)
               /\ connect_backchannel' = Receiver(S, connect_backchannel)

ConnectWorkerRead ==
    \E id \in Ids :
        /\ connect_pc = "run"
        /\ connect_worker[id] = "reading"
        /\ Len(connect_backchannel) < BackchannelCap
        /\ connect_nread' = [connect_nread EXCEPT ![id] = @ + 1]
        /\ connect_backchannel' =
                Append(connect_backchannel, Item(id, FALSE, connect_nread[id] + 1))
        /\ connect_chunks' =
                [connect_chunks EXCEPT ![id] = Append(@, connect_nread[id] + 1)]
        /\ UNCHANGED <<connect_pc, connect_result, custom_ports, connect_listeners,
                       connection_counter, connect_connections, connect_worker,
                       connect_sink, connect_steps, connect_last, connect_removed>>

ConnectWorkerClose ==
    \E id \in Ids :
        /\ connect_pc = "run"
        /\ connect_worker[id] = "reading"
        /\ Len(connect_backchannel) < BackchannelCap
        /\ connect_worker' = [connect_worker EXCEPT ![id] = "finished"]
        /\ connect_nread' = [connect_nread EXCEPT ![id] = 0]
        /\ connect_backchannel' = Append(connect_backchannel, Item(id, TRUE, 0))
        /\ UNCHANGED <<connect_pc, connect_result, custom_ports, connect_listeners,
                       connection_counter, connect_connections, connect_sink,
                       connect_steps, connect_last, connect_removed,
                       connect_chunks>>

\* connect, after the run block has returned: the match on its result
ConnectFinish ==
    /\ connect_pc = "returned"
    /\ connect_pc' = "done"
    /\ connect_sink' = EchoError(connect_result, connect_sink)
    /\ UNCHANGED <<connect_result, custom_ports, connect_listeners,
                   connection_counter, connect_connections, connect_worker,
                   connect_nread, connect_backchannel, connect_steps,
                   connect_last, connect_removed, connect_chunks>>

ConnectFields(pc, ports) ==
    /\ connect_pc = pc
    /\ connect_result = "none"
    /\ custom_ports = ports
    /\ connect_listeners = <<>>
    /\ connection_counter = 0
    /\ connect_connections = {}
    /\ connect_worker = [i \in Ids |-> "none"]
    /\ connect_nread = [i \in Ids |-> 0]
    /\ connect_backchannel = <<>>
    /\ connect_sink = <<>>
    /\ connect_steps = 0
    /\ connect_last = NoEvent
    /\ connect_removed = {}
    /\ connect_chunks = [i \in Ids |-> <<>>]

\* connect has set up the transit and awaits the Offer
ConnectStart == \E ports \in CustomPorts : ConnectFields("offer", ports)

\* this side is not the listener
ConnectIdle == ConnectFields("idle", <<>>)

\* connect is called with a port list of any length
ListenersStart == \E ports \in ListenerPorts : ConnectFields("offer", ports)

\* The handles the source makes: WSHandle::new(1) and WSHandle::new(2)
Handles == {1, 2}

\* history: the websockets a call asks the I/O layer to open
Opened(push) ==
    {push[i].handle : i \in {j \in DOMAIN push : push[j].type = "WebSocketOpen"}}

\* The handle the source makes for a timer: TimerHandle::new(2)
TimerHandles == {2}

\* history: the timers a call asks the I/O layer to start, and to cancel
Started(push) ==
    {push[i].handle : i \in {j \in DOMAIN push : push[j].type = "StartTimer"}}
Cancelled(push) ==
    {push[i].handle : i \in {j \in DOMAIN push : push[j].type = "CancelTimer"}}

\* One call of an event handler by the I/O layer; lost holds the handle of
\* the websocket whose loss the call reports, expired the handle of the
\* timer whose expiry it reports.
RdvApply(event, out, lost, expired) ==
    /\ ~rdv_panicked
    /\ Len(rdv_events) < MaxEvents
    /\ rendezvous' = out.r
    /\ actions' = actions \o out.push
    /\ rdv_panicked' = out.panic
    /\ rdv_events' = Append(rdv_events, event)
    /\ rdv_before' = rendezvous.state
    /\ rdv_open' = (rdv_open \ lost) \cup Opened(out.push)
    /\ rdv_timers' = (rdv_timers \ (expired \cup Cancelled(out.push)))
                        \cup Started(out.push)
    /\ UNCHANGED <<serveVars, connectVars, pairVars>>

RdvStart == RdvApply("start", start(rendezvous), {}, {})
RdvConnectionMade ==
    RdvApply("connection_made", connection_made(rendezvous), {}, {})

\* connection_lost(_handle): the I/O layer names the websocket it lost, an
\* open one when there is one; the handler does not look at the handle
RdvConnectionLost ==
    \E handle \in Handles :
        /\ rdv_open # {} => handle \in rdv_open
        /\ RdvApply("connection_lost", connection_lost(rendezvous), {handle}, {})

\* timer_expired(_handle): the handler does not look at the handle
RdvTimerExpired ==
    \E handle \in TimerHandles :
        RdvApply("timer_expired", timer_expired(rendezvous), {}, {handle})

RdvStop == RdvApply("stop", stop(rendezvous), {}, {})

RdvCreated ==
    /\ \E appid \in AppIds, url \in Urls, retry \in RetryTimers :
          rendezvous = create(appid, url, retry)
    /\ actions = <<>>
    /\ rdv_panicked = FALSE
    /\ rdv_events = <<>>
    /\ rdv_before = "none"
    /\ rdv_open = {}
    /\ rdv_timers = {}

\* No Rendezvous is driven: one instance, never started
RdvIdle ==
    /\ rendezvous = create("appid", <<"w">>, 5)
    /\ actions = <<>>
    /\ rdv_panicked = FALSE
    /\ rdv_events = <<>>
    /\ rdv_before = "none"
    /\ rdv_open = {}
    /\ rdv_timers = {}

(***************************************************************************)
(* The specifications                                                      *)
(***************************************************************************)
\* No session of two peers is run
PairIdle == serve_nrecv = 0 /\ connect_nrecv = 0

\* A Rendezvous driven by the events of the I/O layer, in any order
InitRendezvous == RdvCreated /\ ServeIdle /\ ConnectIdle /\ PairIdle

NextRendezvous ==
    \/ RdvStart
    \/ RdvConnectionMade
    \/ RdvConnectionLost
    \/ RdvTimerExpired
    \/ RdvStop

SpecRendezvous == InitRendezvous /\ [][NextRendezvous]_vars

\* One forwarding session, seen from one side (the forwarder or the
\* listener), with a peer that may send anything
InitForwarding ==
    /\ RdvIdle
    /\ PairIdle
    /\ \/ ServeStart /\ ConnectIdle
       \/ ServeIdle /\ ConnectStart

NextForwarding ==
    \/ ServeReceive /\ UNCHANGED <<rdvVars, connectVars, pairVars>>
    \/ ServeBackchannel /\ UNCHANGED <<rdvVars, connectVars, pairVars>>
    \/ ServeWorkerRead /\ UNCHANGED <<rdvVars, connectVars, pairVars>>
    \/ ServeWorkerClose /\ UNCHANGED <<rdvVars, connectVars, pairVars>>
    \/ ServeFinish /\ UNCHANGED <<rdvVars, connectVars, pairVars>>
    \/ ConnectAwaitOffer /\ UNCHANGED <<rdvVars, serveVars, pairVars>>
    \/ ConnectReceive /\ UNCHANGED <<rdvVars, serveVars, pairVars>>
    \/ ConnectBackchannel /\ UNCHANGED <<rdvVars, serveVars, pairVars>>
    \/ ConnectAccept /\ UNCHANGED <<rdvVars, serveVars, pairVars>>
    \/ ConnectWorkerRead /\ UNCHANGED <<rdvVars, serveVars, pairVars>>
    \/ ConnectWorkerClose /\ UNCHANGED <<rdvVars, serveVars, pairVars>>
    \/ ConnectFinish /\ UNCHANGED <<rdvVars, serveVars, pairVars>>

SpecForwarding == InitForwarding /\ [][NextForwarding]_vars

\* The listener from its start to its first connections, for offers and port
\* lists of any length: the Offer, the accepts, the end of the role
InitListeners == RdvIdle /\ ServeIdle /\ ListenersStart /\ PairIdle

NextListeners ==
    \/ ListenersAwaitOffer /\ UNCHANGED <<rdvVars, serveVars, pairVars>>
    \/ ConnectAccept /\ UNCHANGED <<rdvVars, serveVars, pairVars>>
    \/ ConnectFinish /\ UNCHANGED <<rdvVars, serveVars, pairVars>>

SpecListeners == InitListeners /\ [][NextListeners]_vars

(***************************************************************************)
(* A session of the forwarder and the listener over one transit.  What a   *)
(* side gives to transit_tx is what the other side's transit_rx yields, in *)
(* order; the transit buffers TransitCap records in each direction.        *)
(***************************************************************************)
\* the Offer of serve: the keys of its targets
PairOffer == Offer(<<"5000">>)

\* a role that has returned or panicked has dropped its transit
PeerGone(pc) == pc \in {"done", "panicked"}

\* the records a side has given to its sink and the peer has not taken
InFlight(sink, nrecv) == Len(sink) - nrecv

\* transit_tx.send(..).await of the last record has not completed: the
\* buffers are full.  The loop is in that await, and takes no other event.
ServeBlocked ==
    ~PeerGone(connect_pc) /\ InFlight(serve_sink, connect_nrecv) > TransitCap
ConnectBlocked ==
    ~PeerGone(serve_pc) /\ InFlight(connect_sink, serve_nrecv) > TransitCap

\* a send succeeds while the peer holds its end of the transit
SendOutcomes(peer_pc) == IF PeerGone(peer_pc) THEN BOOLEAN ELSE {TRUE}

\* transit_rx.next(): the next record of the peer, or the end of the stream
\* when the peer is gone
TransitReady(sink, nrecv, peer_pc) == nrecv < Len(sink) \/ PeerGone(peer_pc)
TransitNext(sink, nrecv) ==
    IF nrecv < Len(sink) THEN sink[nrecv + 1] ELSE Plain("EndOfStream")
Taken(sink, nrecv) == IF nrecv < Len(sink) THEN nrecv + 1 ELSE nrecv

PairServeReceive ==
    \E local_ok \in BOOLEAN, send_ok \in SendOutcomes(connect_pc) :
        /\ serve_pc = "run"
        /\ serve_steps < MaxSteps - 1
        /\ ~ServeBlocked
        /\ TransitReady(connect_sink, serve_nrecv, connect_pc)
        /\ LET m == TransitNext(connect_sink, serve_nrecv)
               S == ServeTransit(ServeSelf, m, local_ok, send_ok)
           IN  /\ ServeIteration(S, m, local_ok, send_ok)
               /\ serve_backchannel' = Receiver(S, serve_backchannel)
        /\ serve_nrecv' = Taken(connect_sink, serve_nrecv)
        /\ UNCHANGED <<rdvVars, connectVars, connect_nrecv>>

PairServeBackchannel ==
    /\ serve_steps < MaxSteps - 1
    /\ ~ServeBlocked
    /\ ServeBackchannel
    /\ serve_last'.send_ok \in SendOutcomes(connect_pc)
    /\ UNCHANGED <<rdvVars, connectVars, pairVars>>

PairServeFinish ==
    /\ ~ServeBlocked
    /\ ServeFinish
    /\ UNCHANGED <<rdvVars, connectVars, pairVars>>

PairAwaitOffer ==
    /\ AwaitOffer({PairOffer})
    /\ UNCHANGED <<rdvVars, serveVars, pairVars>>

PairConnectReceive ==
    \E write_ok \in BOOLEAN, send_ok \in SendOutcomes(serve_pc) :
        /\ connect_steps < MaxSteps - 1
        /\ ~ConnectBlocked
        /\ TransitReady(serve_sink, connect_nrecv, serve_pc)
        /\ LET m == TransitNext(serve_sink, connect_nrecv)
               S == ConnectTransit(ConnectSelf, m, write_ok, send_ok)
           IN  /\ ConnectIteration(S, m, write_ok, send_ok)
               /\ connect_backchannel' = Receiver(S, connect_backchannel)
        /\ connect_nrecv' = Taken(serve_sink, connect_nrecv)
        /\ UNCHANGED <<rdvVars, serveVars, serve_nrecv>>

PairConnectBackchannel ==
    /\ connect_steps < MaxSteps - 1
    /\ ~ConnectBlocked
    /\ ConnectBackchannel
    /\ connect_last'.send_ok \in SendOutcomes(serve_pc)
    /\ UNCHANGED <<rdvVars, serveVars, pairVars>>

PairConnectAccept ==
    /\ connect_steps < MaxSteps - 1
    /\ ~ConnectBlocked
    /\ ConnectAccept
    /\ connect_last'.send_ok \in SendOutcomes(serve_pc)
    /\ UNCHANGED <<rdvVars, serveVars, pairVars>>

PairConnectFinish ==
    /\ ~ConnectBlocked
    /\ ConnectFinish
    /\ UNCHANGED <<rdvVars, serveVars, pairVars>>

\* serve has sent its Offer and runs; connect awaits it
InitPair == RdvIdle /\ ServeStart /\ ConnectStart /\ PairIdle

NextPair ==
    \/ PairServeReceive
    \/ PairServeBackchannel
    \/ ServeWorkerRead /\ UNCHANGED <<rdvVars, connectVars, pairVars>>
    \/ ServeWorkerClose /\ UNCHANGED <<rdvVars, connectVars, pairVars>>
    \/ PairServeFinish
    \/ PairAwaitOffer
    \/ PairConnectReceive
    \/ PairConnectBackchannel
    \/ PairConnectAccept
    \/ ConnectWorkerRead /\ UNCHANGED <<rdvVars, serveVars, pairVars>>
    \/ ConnectWorkerClose /\ UNCHANGED <<rdvVars, serveVars, pairVars>>
    \/ PairConnectFinish

SpecPair == InitPair /\ [][NextPair]_vars

(***************************************************************************)
(* The claims                                                              *)
(***************************************************************************)
Running(pc) == pc = "run"
Returned(pc) == pc \in {"returned", "done"}
LastOf(seq) == seq[Len(seq)]
IsConnect(m) == m.type = "Connect"
ErrorsIn(sink) == Cardinality({i \in DOMAIN sink : sink[i].type = "Error"})
DialFailed(last) ==
    last.event.type = "Connect" /\ "dial" \in last.io /\ ~last.local_ok

\* C1: on the forwarder, a Forward{K} or Disconnect{K} received after a
\* Connect{K} was handled never ends the loop with a protocol error; a
\* Forward{K} for a K no Connect has named ends it with a protocol error;
\* a failed dial writes Disconnect{K} to the sink and, the write accepted,
\* the loop goes on.
C1_BurnRule ==
    LET e == serve_last.event
        K == e.connection_id
    IN  /\ (e.type \in {"Forward", "Disconnect"} /\ K \in serve_announced)
              => serve_result \notin {"Protocol", "Unexpected"}
        /\ (e.type = "Forward" /\ K \notin serve_announced)
              => Returned(serve_pc) /\ serve_result = "Protocol"
        /\ DialFailed(serve_last)
              => /\ \E i \in DOMAIN serve_sink : serve_sink[i] = Disconnect(K)
                 /\ serve_last.send_ok
                      => Running(serve_pc) /\ LastOf(serve_sink) = Disconnect(K)

\* C1 witness: the dial for id 0 failed, and a later Forward{0} was handled
\* with the loop still running
C1_Witness ==
    /\ serve_last.event = Forward(0, 0)
    /\ Running(serve_pc)
    /\ 0 \in serve_announced
    /\ 0 \notin serve_connections
    /\ serve_sink = <<Disconnect(0)>>
    /\ serve_removed = {}

\* C2: the Connect messages the listener writes carry the ids 0, 1, 2, ...
\* in the order written
C2_ConnectIds ==
    LET sent == SelectSeq(connect_sink, IsConnect)
    IN  \A i \in DOMAIN sent : sent[i].connection_id = i - 1

\* C2 witness: two Connect messages with a Forward written between them
C2_Witness ==
    /\ Len(connect_sink) = 3
    /\ connect_sink[1].type = "Connect"
    /\ connect_sink[2].type = "Forward"
    /\ connect_sink[3].type = "Connect"

\* C3 (as claimed): no id once removed from connections is in connections
\* again, on either side
C3_NeverReinserted ==
    /\ serve_connections \cap serve_removed = {}
    /\ connect_connections \cap connect_removed = {}

\* C4 (as claimed): in what a side writes, no Forward{id} follows a
\* Disconnect{id}
NoForwardAfterDisconnect(sink) ==
    \A i, j \in DOMAIN sink :
        (i < j /\ sink[i].type = "Disconnect" /\ sink[j].type = "Forward")
            => sink[i].connection_id # sink[j].connection_id

C4_DisconnectAfterForwards ==
    /\ NoForwardAfterDisconnect(serve_sink)
    /\ NoForwardAfterDisconnect(connect_sink)

\* C5 (as claimed): when run has returned, no reader task is left running
C5_WorkersCancelledOnExit ==
    /\ Returned(serve_pc) => \A id \in Ids : serve_worker[id] # "detached"
    /\ Returned(connect_pc) => \A id \in Ids : connect_worker[id] # "detached"

\* C6 (as claimed): the end of the transit input makes run return success
C6_EndOfStreamIsClose ==
    /\ (serve_last.event.type = "EndOfStream")
            => Returned(serve_pc) /\ serve_result = "Ok"
    /\ (connect_last.event.type = "EndOfStream" /\ connect_last.at = "run")
            => Returned(connect_pc) /\ connect_result = "Ok"

\* C7: a role that returns an error other than a PeerError has written
\* exactly one Error message, after the loop ended; a role that returns a
\* PeerError has written none
ErrorEcho(pc, result, sink) ==
    /\ pc = "returned" => ErrorsIn(sink) = 0
    /\ (pc = "done" /\ result = "Peer") => ErrorsIn(sink) = 0
    /\ (pc = "done" /\ result \notin {"Ok", "Peer"})
            => ErrorsIn(sink) = 1 /\ LastOf(sink).type = "Error"

C7_ErrorEcho ==
    /\ ErrorEcho(serve_pc, serve_result, serve_sink)
    /\ ErrorEcho(connect_pc, connect_result, connect_sink)

\* C7 witness: the forwarder has returned a protocol error after writing
\* another message
C7_Witness ==
    /\ serve_pc = "done"
    /\ serve_result = "Protocol"
    /\ Len(serve_sink) = 2
    /\ serve_sink[1].type = "Disconnect"

\* C8: the iteration that handles a Close is the last: run returns success,
\* and no reader task is left
ClosePropagates(pc, result, last, connections, worker) ==
    (last.event.type = "Close" /\ last.at = "run")
        => /\ Returned(pc)
           /\ result = "Ok"
           /\ connections = {}
           /\ \A id \in Ids : worker[id] \in {"none", "cancelled"}

C8_ClosePropagation ==
    /\ ClosePropagates(serve_pc, serve_result, serve_last, serve_connections,
                       serve_worker)
    /\ ClosePropagates(connect_pc, connect_result, connect_last,
                       connect_connections, connect_worker)

\* C8 witness: the listener has handled a Close with two connections live
C8_Witness ==
    /\ connect_last.event.type = "Close"
    /\ connect_last.at = "run"
    /\ \A id \in 0..1 : connect_worker[id] = "cancelled"
    /\ connect_removed = {}

\* C9: start, connection_made, connection_lost, timer_expired on a new
\* Rendezvous push one action each: an Open of the lowercased url, the bind
\* message, a StartTimer of the retry delay, an Open of the lowercased url;
\* the machine ends in Connecting
HappyPath == <<"start", "connection_made", "connection_lost", "timer_expired">>

Lowercased(url, configured) ==
    /\ Len(url) = Len(configured)
    /\ \A i \in DOMAIN url :
          /\ url[i] \notin {"W", "S"}
          /\ url[i] = configured[i]
                \/ <<configured[i], url[i]>> \in {<<"W", "w">>, <<"S", "s">>}

HappyAction(j, a) ==
    CASE j = 1 -> a.type = "WebSocketOpen" /\ Lowercased(a.url, rendezvous.relay_url)
      [] j = 2 -> /\ a.type = "WebSocketSendMessage"
                  /\ a.msg.type = "bind"
                  /\ a.msg.appid = rendezvous.appid
                  /\ a.msg.side # ""
      [] j = 3 -> a.type = "StartTimer" /\ a.seconds = rendezvous.retry_timer
      [] j = 4 -> a.type = "WebSocketOpen" /\ Lowercased(a.url, rendezvous.relay_url)

C9_ReconnectCycle ==
    \A k \in 1..4 :
        rdv_events = SubSeq(HappyPath, 1, k)
            => /\ ~rdv_panicked
               /\ Len(actions) = k
               /\ \A j \in 1..k : HappyAction(j, actions[j])
               /\ k = 4 => rendezvous.state = "Connecting"

\* C9 witness: the cycle has run with a url that has capitals
C9_Witness ==
    /\ rdv_events = HappyPath
    /\ \E i \in DOMAIN rendezvous.relay_url : rendezvous.relay_url[i] \in {"W", "S"}

\* C10: the transitions of the state-machine table
Table ==
    {<<"Idle", "start">>, <<"Connecting", "connection_made">>,
     <<"Connecting", "connection_lost">>, <<"Connected", "connection_lost">>,
     <<"Waiting", "timer_expired">>, <<"Waiting", "stop">>,
     <<"Connecting", "stop">>, <<"Connected", "stop">>,
     <<"Disconnecting", "connection_lost">>, <<"Idle", "stop">>,
     <<"Stopped", "stop">>}

LastTransition == <<rdv_before, LastOf(rdv_events)>>

\* C10 (as claimed): an event in a state the table does not list it for is a
\* programming error
C10_TableClosed ==
    (rdv_events # <<>> /\ LastTransition \notin Table) => rdv_panicked

\* C10 (amended): the same, but for stop in Disconnecting, which is accepted
\* and leaves the machine in Disconnecting
C10_TableClosedButStop ==
    /\ (rdv_events # <<>>
        /\ LastTransition \notin Table \cup {<<"Disconnecting", "stop">>})
            => rdv_panicked
    /\ (rdv_events # <<>> /\ LastTransition = <<"Disconnecting", "stop">>)
            => ~rdv_panicked /\ rendezvous.state = "Disconnecting"

\* C10 witness: a timer expired in Connected, and the handler panicked
C10_Witness ==
    /\ rdv_events # <<>>
    /\ LastTransition = <<"Connected", "timer_expired">>
    /\ rdv_panicked

\* In a step of a handler: the actions the call pushed, and the event applied
Pushed == SubSeq(actions', Len(actions) + 1, Len(actions'))
Called(event) == rdv_events' = Append(rdv_events, event)
IsBind(a) == a.type = "WebSocketSendMessage" /\ a.msg.type = "bind"
Binds(seq) == Cardinality({i \in DOMAIN seq : IsBind(seq[i])})

\* C11: stop in Waiting pushes exactly one CancelTimer and moves to Stopped;
\* stop in Connected or Connecting pushes exactly one WebSocketClose and moves
\* to Disconnecting; stop in Idle or Stopped pushes nothing and leaves the
\* machine in Stopped
StopMoves(from, to, types) ==
    (Called("stop") /\ rendezvous.state \in from)
        => /\ ~rdv_panicked'
           /\ rendezvous'.state = to
           /\ actions' = actions \o Pushed
           /\ Len(Pushed) = Len(types)
           /\ \A i \in DOMAIN types : Pushed[i].type = types[i]

C11_StopSemantics ==
    [][/\ StopMoves({"Waiting"}, "Stopped", <<"CancelTimer">>)
       /\ StopMoves({"Connected", "Connecting"}, "Disconnecting",
                    <<"WebSocketClose">>)
       /\ StopMoves({"Idle", "Stopped"}, "Stopped", <<>>)]_vars

\* C11 witness: stop was called in Waiting
C11_Witness ==
    /\ rdv_events # <<>>
    /\ LastTransition = <<"Waiting", "stop">>
    /\ rendezvous.state = "Stopped"
    /\ LastOf(actions).type = "CancelTimer"

\* C12: a call that is rejected as a programming error pushes no action;
\* connection_made in Idle and timer_expired in Connected are rejected
Rejected(state, event) ==
    (Called(event) /\ rendezvous.state = state) => rdv_panicked'

C12_IllegalEmitsNothing ==
    [][/\ (rdv_panicked' /\ ~rdv_panicked) => actions' = actions
       /\ Rejected("Idle", "connection_made")
       /\ Rejected("Connected", "timer_expired")]_vars

\* C12 witness: a timer expired in Connected, after two actions were pushed
C12_Witness ==
    /\ rdv_panicked
    /\ rdv_before = "Connected"
    /\ LastOf(rdv_events) = "timer_expired"
    /\ Len(actions) = 2

\* C13: a call pushes a WebSocketOpen only when no websocket opened before
\* is still open, and never more than one
C13_OneWebSocket ==
    [][Opened(Pushed) # {}
          => /\ rdv_open = {}
             /\ Cardinality({i \in DOMAIN Pushed :
                                Pushed[i].type = "WebSocketOpen"}) = 1]_vars

\* C13 witness: a second websocket is open, the first one lost
C13_Witness ==
    /\ rdv_open = {2}
    /\ Cardinality({i \in DOMAIN actions : actions[i].type = "WebSocketOpen"}) = 2

\* C14 (as claimed): connected_at_least_once is false at creation and true
\* once a connection_made was accepted
C14_ConnectedAtLeastOnce ==
    /\ rdv_events = <<>> => ~rendezvous.connected_at_least_once
    /\ (\E i \in DOMAIN rdv_events :
            /\ rdv_events[i] = "connection_made"
            /\ i = Len(rdv_events) => ~rdv_panicked)
          => rendezvous.connected_at_least_once

\* C15: a step that enters Connected pushes exactly one bind message, and no
\* other step pushes one: the binds pushed are as many as the entries into
\* Connected
EntersConnected == rendezvous.state # "Connected" /\ rendezvous'.state = "Connected"

C15_BindOncePerConnected ==
    [][Binds(actions') = Binds(actions) + (IF EntersConnected THEN 1 ELSE 0)]_vars

\* C15 witness: Connected was entered twice, and two binds were pushed
C15_Witness ==
    /\ Binds(actions) = 2
    /\ rendezvous.state = "Connected"
    /\ Len(SelectSeq(rdv_events, LAMBDA e : e = "connection_made")) = 2

\* C16: on the forwarder, every id in connections is in historic_connections
C16_LiveSubsetOfHistoric == serve_connections \subseteq historic_connections

\* C16 witness: two connections are live on the forwarder
C16_Witness ==
    /\ Running(serve_pc)
    /\ serve_connections = {0, 1}

\* C17: on the listener, every id in connections is below connection_counter
C17_LiveBelowCounter == \A id \in connect_connections : id < connection_counter

\* C17 witness: id 1 is live on the listener, id 0 was removed
C17_Witness ==
    /\ Running(connect_pc)
    /\ connect_connections = {1}
    /\ 0 \in connect_removed

\* C18: for every id, the payloads of the Forward messages a side has
\* written are, in order, the first chunks its readers have read for that id;
\* while the loop runs, the chunks not yet written are those queued on the
\* back-channel, in order: none is reordered, duplicated or dropped
Payloads(seq) == [i \in DOMAIN seq |-> seq[i].payload]

ForwardsOf(sink, id) ==
    Payloads(SelectSeq(sink, LAMBDA m : m.type = "Forward" /\ m.connection_id = id))

QueuedOf(queue, id) ==
    Payloads(SelectSeq(queue, LAMBDA item : ~item.close /\ item.connection_id = id))

IsPrefix(s, t) == Len(s) <= Len(t) /\ \A i \in DOMAIN s : s[i] = t[i]

SameSeq(s, t) == Len(s) = Len(t) /\ \A i \in DOMAIN s : s[i] = t[i]

ForwardOrder(pc, sink, queue, chunks) ==
    \A id \in Ids :
        /\ IsPrefix(ForwardsOf(sink, id), chunks[id])
        /\ Running(pc) => SameSeq(ForwardsOf(sink, id) \o QueuedOf(queue, id),
                                  chunks[id])

C19_OfferFirst ==
    /\ connect_pc = "offer"
          => /\ connect_sink = <<>>
             /\ connection_counter = 0
             /\ connect_connections = {}
             /\ connect_listeners = <<>>
    /\ (connect_last.at = "offer" /\ Running(connect_pc))
          => connect_last.event.type = "Offer"
    /\ (connect_last.at = "offer"
        /\ connect_last.event.type \in {"Error", "Connect", "Forward", "Close",
                                        "Transit", "Unknown"})
          => /\ Returned(connect_pc)
             /\ connect_result = IF connect_last.event.type = "Error"
                                 THEN "Peer" ELSE "Unexpected"
             /\ connect_listeners = <<>>
             /\ "bind" \notin connect_last.io
             /\ connection_counter = 0
             /\ SelectSeq(connect_sink, IsConnect) = <<>>

\* C19 witness: the peer sent a Connect in place of the Offer, and the role
\* has returned
C19_Witness ==
    /\ connect_last.at = "offer"
    /\ connect_last.event.type = "Connect"
    /\ connect_pc = "done"
    /\ connect_sink = <<Plain("Error")>>

\* C20: on the listener, a Forward{id} or Disconnect{id} for an id that is
\* not live ends the loop with a protocol error when id >= connection_counter;
\* when id < connection_counter the loop goes on, nothing is written and the
\* connections are as they were
C20_ListenerCloseRace ==
    [][\A id \in Ids :
         (/\ connect_pc = "run"
          /\ connect_steps' = connect_steps + 1
          /\ connect_last'.event \in {Forward(id, 0), Disconnect(id)}
          /\ id \notin connect_connections)
            => IF id < connection_counter
               THEN /\ connect_pc' = "run"
                    /\ connect_result' = "none"
                    /\ connect_sink' = connect_sink
                    /\ connect_connections' = connect_connections
                    /\ connect_worker' = connect_worker
                    /\ connection_counter' = connection_counter
               ELSE /\ connect_pc' = "returned"
                    /\ connect_result' = "Protocol"]_vars

\* C20 witness: the listener has handled a Forward{0} after it removed
\* connection 0, and the loop goes on
C20_Witness ==
    /\ connect_last.at = "run"
    /\ connect_last.event = Forward(0, 0)
    /\ 0 \in connect_removed
    /\ 0 \notin connect_connections
    /\ Running(connect_pc)

\* C25: a call pushes a StartTimer only when no timer started before is
\* still in flight, and never more than one; the CancelTimer that stop
\* pushes in Waiting names the timer of the last StartTimer, which is in
\* flight
OfType(seq, type) == SelectSeq(seq, LAMBDA a : a.type = type)

C25_TimerOwnership ==
    [][/\ Started(Pushed) # {}
            => /\ rdv_timers = {}
               /\ Len(OfType(Pushed, "StartTimer")) = 1
       /\ (Called("stop") /\ rendezvous.state = "Waiting")
            => LET started == OfType(actions, "StartTimer")
               IN  /\ started # <<>>
                   /\ Pushed = <<CancelTimer(LastOf(started).handle)>>
                   /\ rdv_timers = {LastOf(started).handle}
                   /\ rdv_timers' = {}]_vars

\* C25 witness: stop was called in Waiting, the second time a timer ran
C25_Witness ==
    /\ rdv_events # <<>>
    /\ LastTransition = <<"Waiting", "stop">>
    /\ Len(OfType(actions, "StartTimer")) = 2
    /\ LastOf(actions).type = "CancelTimer"

\* C28 (as claimed): every WebSocketSendMessage and WebSocketClose pushed
\* carries the handle of the WebSocketOpen pushed last before it
IsOpen(a) == a.type = "WebSocketOpen"

C28_ActionsNameCurrentSocket ==
    \A i \in DOMAIN actions :
        actions[i].type \in {"WebSocketSendMessage", "WebSocketClose"}
            => \E j \in 1..(i - 1) :
                  /\ IsOpen(actions[j])
                  /\ \A k \in (j + 1)..(i - 1) : ~IsOpen(actions[k])
                  /\ actions[i].handle = actions[j].handle

\* C29 (as claimed): an event that was on its way when stop was called is
\* accepted: a connection_made after stop in Connecting, a connection_lost
\* after stop in Connecting or Connected, a timer_expired after stop in
\* Waiting.  That stop has pushed a WebSocketClose, respectively a
\* CancelTimer, as the last action; in Connecting the action before the
\* WebSocketClose is the WebSocketOpen.
AfterStop(event) ==
    /\ Len(rdv_events) >= 2
    /\ rdv_events[Len(rdv_events) - 1] = "stop"
    /\ LastOf(rdv_events) = event
    /\ actions # <<>>

C29_StopIsRaceSafe ==
    /\ (AfterStop("connection_made")
        /\ LastOf(actions).type = "WebSocketClose"
        /\ Len(actions) >= 2
        /\ IsOpen(actions[Len(actions) - 1]))
          => ~rdv_panicked
    /\ (AfterStop("connection_lost") /\ LastOf(actions).type = "WebSocketClose")
          => ~rdv_panicked
    /\ (AfterStop("timer_expired") /\ LastOf(actions).type = "CancelTimer")
          => ~rdv_panicked

\* In a step of a session loop: the loop of the forwarder, respectively of
\* the listener, handles the transit message m
ServeHandles(m) ==
    serve_pc = "run" /\ serve_steps' = serve_steps + 1 /\ serve_last'.event = m
ConnectHandles(m) ==
    connect_pc = "run" /\ connect_steps' = connect_steps + 1 /\ connect_last'.event = m

ProtocolErrors == {"Protocol", "Unexpected"}

\* C22: the loop of the forwarder returns a protocol error on a Connect that
\* names a target outside the target map, on a Connect whose id is live, and
\* on an Offer, a Transit or an unknown message; the loop of the listener on
\* a Connect, an Offer, a Transit or an unknown message
C22_ProtocolViolations ==
    [][/\ \A m \in ServeInputs :
            (/\ ServeHandles(m)
             /\ \/ m.type = "Connect" /\ m.target \notin Targets
                \/ m.type = "Connect" /\ m.connection_id \in serve_connections
                \/ m.type \in {"Offer", "Transit", "Unknown"})
              => serve_pc' = "returned" /\ serve_result' \in ProtocolErrors
       /\ \A m \in ConnectInputs :
            (ConnectHandles(m) /\ m.type \in {"Connect", "Offer", "Transit", "Unknown"})
              => connect_pc' = "returned" /\ connect_result' \in ProtocolErrors]_vars

\* C22 witness: the forwarder has returned a protocol error on a Connect for
\* a target of the map, whose id was live
C22_Witness ==
    /\ serve_last.event = Connect("5000", 0)
    /\ serve_result = "Protocol"
    /\ "dial" \notin serve_last.io
    /\ serve_steps = 2

\* C23: when the local write of a Forward{id} for a live id fails, and the
\* transit takes the Disconnect, the loop writes one Disconnect{id}, removes
\* id, cancels its reader, leaves the other connections as they are and goes
\* on
WriteFailureConfined(m, last, pc, connections, worker, sink,
                     pcN, connectionsN, workerN, sinkN) ==
    LET id == m.connection_id
    IN  (/\ m.type = "Forward"
         /\ id \in connections
         /\ ~last.local_ok
         /\ last.send_ok)
          => /\ pcN = "run"
             /\ sinkN = Append(sink, Disconnect(id))
             /\ connectionsN = connections \ {id}
             /\ workerN[id] = "cancelled"
             /\ \A other \in Ids \ {id} : workerN[other] = worker[other]

C23_WriteFailureConfined ==
    [][/\ \A m \in ServeInputs :
            ServeHandles(m)
              => WriteFailureConfined(m, serve_last', serve_pc, serve_connections,
                                      serve_worker, serve_sink, serve_pc',
                                      serve_connections', serve_worker', serve_sink')
       /\ \A m \in ConnectInputs :
            ConnectHandles(m)
              => WriteFailureConfined(m, connect_last', connect_pc,
                                      connect_connections, connect_worker,
                                      connect_sink, connect_pc',
                                      connect_connections', connect_worker',
                                      connect_sink')]_vars

\* C23 witness: on the forwarder the write for connection 0 failed, with
\* connection 1 live
C23_Witness ==
    /\ serve_last.event = Forward(0, 0)
    /\ "write" \in serve_last.io
    /\ ~serve_last.local_ok
    /\ Running(serve_pc)
    /\ serve_connections = {1}
    /\ serve_worker[1] = "reading"

\* C24: on the forwarder, a Disconnect{id} from the peer removes a live id and
\* cancels its reader, writing nothing; changes nothing for an id that is
\* not live but in historic_connections; is a protocol error for any other id
C24_ServeDisconnect ==
    [][\A id \in Ids :
         ServeHandles(Disconnect(id))
           => CASE id \in serve_connections ->
                    /\ serve_pc' = "run"
                    /\ serve_connections' = serve_connections \ {id}
                    /\ serve_worker'[id] = "cancelled"
                    /\ serve_sink' = serve_sink
                [] id \notin serve_connections /\ id \in historic_connections ->
                    /\ serve_pc' = "run"
                    /\ serve_result' = "none"
                    /\ UNCHANGED <<serve_connections, historic_connections,
                                   serve_worker, serve_sink, serve_backchannel>>
                [] OTHER ->
                    /\ serve_pc' = "returned"
                    /\ serve_result' = "Protocol"
                    /\ serve_sink' = serve_sink]_vars

\* C24 witness: a second Disconnect{0} was handled, the first one having
\* removed connection 0
C24_Witness ==
    /\ serve_last.event = Disconnect(0)
    /\ Running(serve_pc)
    /\ serve_removed = {0}
    /\ serve_steps = 3
    /\ serve_sink = <<>>

\* C26: while a session loop runs, its back-channel is not closed: the
\* receive on it never yields None, and the loop never unwraps one
C26_BackchannelNeverCloses ==
    /\ Running(serve_pc)
          => BackchannelNext(serve_backchannel, serve_worker) # "closed"
    /\ Running(connect_pc)
          => BackchannelNext(connect_backchannel, connect_worker) # "closed"
    /\ serve_last.event.type # "BackchannelClosed"
    /\ connect_last.event.type # "BackchannelClosed"

\* C26 witness: the forwarder runs with an empty back-channel, both its
\* readers gone
C26_Witness ==
    /\ Running(serve_pc)
    /\ serve_backchannel = <<>>
    /\ serve_removed = {0, 1}
    /\ \A id \in {0, 1} : serve_worker[id] = "cancelled"

\* C21: after an Offer of n addresses, with a custom port list of length m,
\* n listeners are bound; the i-th is asked on the i-th custom port when
\* there is one and on port 0 otherwise, and stands for the i-th address;
\* custom ports past the n-th are not used
C21_PortMapping ==
    (connect_last.at = "offer" /\ connect_last.event.type = "Offer"
     /\ Running(connect_pc))
      => LET offered == connect_last.event.addresses
             n == Len(offered)
             m == Len(custom_ports)
         IN  /\ Len(connect_listeners) = n
             /\ \A i \in 1..n :
                  /\ connect_listeners[i].address = offered[i]
                  /\ i <= m => connect_listeners[i].port = custom_ports[i]
                  /\ i > m => connect_listeners[i].port = 0

\* C21 witness: three addresses offered, two custom ports
C21_Witness ==
    /\ connect_last.at = "offer"
    /\ Running(connect_pc)
    /\ custom_ports = <<10001, 10002>>
    /\ Len(connect_last.event.addresses) = 3
    /\ [i \in 1..3 |-> connect_listeners[i].port] = <<10001, 10002, 0>>

\* C27: in a session of the forwarder and the listener, neither session
\* loop returns a protocol error
C27_NoAccusation ==
    /\ serve_result \notin ProtocolErrors
    /\ connect_result \notin ProtocolErrors

\* C27 witness: the forwarder has taken a Forward{0} of the listener after
\* its dial for connection 0 failed, and goes on
C27_Witness ==
    /\ serve_last.event = Forward(0, 1)
    /\ serve_nrecv = 2
    /\ 0 \notin serve_connections
    /\ serve_sink = <<Disconnect(0)>>
    /\ Running(serve_pc)

\* C30 (as claimed): the two session loops are never both blocked in a send
\* on the transit
C30_NoMutualBlock == ~(ServeBlocked /\ ConnectBlocked)

\* the Disconnect records for connection id among the records a side has
\* given to its transit sink
DisconnectsOf(sink, id) ==
    SelectSeq(sink, LAMBDA m : m.type = "Disconnect" /\ m.connection_id = id)

\* C31 (as claimed): a side sends at most one Disconnect per connection id.
\* While a session loop runs every send it made has completed (a failed send
\* returns from the loop), so the records of its sink are the messages it
\* has written: they hold no two Disconnect of one id, on the forwarder and
\* on the listener
C31_OneDisconnectPerId ==
    \A id \in Ids :
        /\ Running(serve_pc) => Len(DisconnectsOf(serve_sink, id)) <= 1
        /\ Running(connect_pc) => Len(DisconnectsOf(connect_sink, id)) <= 1

====
